---- MODULE Spec2Model ----
(***************************************************************************)
(* Video conversion pipeline of the WebConvert bot.                        *)
(*   src/video_converter.py : convert_video_to_mp4, _convert_video_sync,   *)
(*                            _detect_hardware_acceleration                *)
(*   src/bot.py             : safe_edit_text, active_conversions,          *)
(*                            _process_video_file, handle_video_url,       *)
(*                            _convert_video_background,                   *)
(*                            _convert_uploaded_video_background           *)
(***************************************************************************)
EXTENDS Integers, Sequences, FiniteSets, TLC

VARIABLES
    \* ---- geometry planner / filter builder of one _convert_video_sync call
    gpc,            \* position: "reported" -> "probed" -> "planned" -> "built",
                    \* or "raised" when the planner raised
    video_info,     \* width and height entries of the first video stream
                    \* that ffmpeg.probe reported (video_converter.py:275)
    width,          \* video_info width  (video_converter.py:300)
    height,         \* video_info height (video_converter.py:301)
    new_width, new_height, x_offset, y_offset,   \* video_converter.py:312-325
    video_filters,  \* filters applied to video_stream (video_converter.py:336-352)
    \* ---- conversion orchestration (bot.py) and transcode runner
    active_conversions,   \* keys of the dict active_conversions (bot.py:114)
    fs,                   \* the files under downloads/, converted/ and
                          \* webapp/converted/: path -> size, NoFile if absent
    task,                 \* one record per submission / background task
    \* ---- one run of _convert_video_sync seen from its stderr reader
    run_pc,         \* "encoding", "succeeded" (returned) or "failed" (raised)
    duration,       \* video_converter.py:291-297, seconds, 0 if unknown
    run_codec,      \* video_codec of the current call
    attempts,       \* encode processes started so far
    current_time,   \* the last time= value of the current encode process
    clock,          \* seconds of wall time since the first launch
    last_log_time,  \* video_converter.py:503, 546
    progress,       \* percentages logged so far, in tenths of a percent
    \* ---- one call of convert_video_to_mp4, step by step
    call,           \* record: position, what the external tools answered,
                    \* and what the call decided, raised and returned
    \* ---- one encode process with its two pipes, the reader thread and the
    \* ---- thread that waits for the exit
    proc            \* record: what the child still writes, what the pipes
                    \* hold, where the two threads are

geomVars == <<gpc, video_info, width, height, new_width, new_height, x_offset, y_offset,
              video_filters>>

pipeVars == <<active_conversions, fs, task>>

runVars == <<run_pc, duration, run_codec, attempts, current_time, clock, last_log_time, progress>>

sideVars == <<runVars, call, proc>>

vars == <<geomVars, pipeVars, sideVars>>

-----------------------------------------------------------------------------
(* Bounds of the model *)

\* source dimensions 1..MaxDim x 1..MaxDim are enumerated exhaustively
MaxDim == 48

\* some real-world frame sizes, and two strips more than target_width times
\* wider (target_height times taller) than they are high (wide), enumerated
\* in addition
SampleDims ==
    { <<3840, 1600>>, <<1920, 1080>>, <<3840, 2160>>, <<1280, 720>>,
      <<640, 480>>, <<720, 1280>>, <<1920, 800>>, <<60, 29>>, <<77, 54>>,
      <<3840, 1>>, <<1, 2160>> }

Dims == ((1..MaxDim) \X (1..MaxDim)) \cup SampleDims

-----------------------------------------------------------------------------
(* Geometry planner: video_converter.py:299-325.                           *)
(* The code computes in IEEE-754 doubles:                                  *)
(*     input_aspect = width / height                                       *)
(*     new_height   = int(target_width / input_aspect)      (wider)        *)
(*     new_width    = int(target_height * input_aspect)     (otherwise)    *)
(* so the quotient is rounded to 53 significant bits before it is used,    *)
(* and int() truncates a product that may have landed just below an        *)
(* integer.  The operators below compute exactly that, in integers.        *)

target_width == 1920
target_height == 1080

RECURSIVE Pow2(_)
Pow2(n) == IF n <= 0 THEN 1 ELSE 2 * Pow2(n - 1)

\* floor(log2(n)) for n >= 1
RECURSIVE FloorLog2(_)
FloorLog2(n) == IF n < 2 THEN 0 ELSE 1 + FloorLog2(n \div 2)

\* binary exponent of the doubles immediately below the integer n >= 1
ExpBelow(n) == IF Pow2(FloorLog2(n)) = n THEN FloorLog2(n) - 1 ELSE FloorLog2(n)

\* a * 2^ka > b * 2^kb, for a, b >= 0 and integer (possibly negative) ka, kb
Pow2Greater(a, ka, b, kb) ==
    LET m == IF ka < kb THEN ka ELSE kb
    IN  a * Pow2(ka - m) > b * Pow2(kb - m)

\* Long division W / H (H <= W < 2H) continued for n more mantissa bits:
\* r is the running remainder, last the last quotient bit produced.
RECURSIVE MantissaBits(_, _, _, _)
MantissaBits(r, H, n, last) ==
    IF n = 0 THEN [r |-> r, last |-> last]
    ELSE MantissaBits((2 * r) % H, H, n - 1, (2 * r) \div H)

\* normalisation of w / h into [1, 2): W / H = (w / h) * 2^(-e)
RECURSIVE Normalise(_, _, _)
Normalise(W, H, e) ==
    IF W >= 2 * H THEN Normalise(W, 2 * H, e + 1)
    ELSE IF W < H THEN Normalise(2 * W, H, e - 1)
    ELSE [W |-> W, H |-> H, e |-> e]

\* Python's  w / h  on ints: the exact quotient rounded to nearest-even at
\* 53 bits.  Result: fl(w/h) = w/h + (err/den) * 2^(e-52).
TrueDiv(w, h) ==
    LET n == Normalise(w, h, 0)
        b == MantissaBits(n.W - n.H, n.H, 52, 1)
        up == (2 * b.r > n.H) \/ (2 * b.r = n.H /\ b.last = 1)
    IN  [e |-> n.e, den |-> n.H, err |-> IF up THEN n.H - b.r ELSE 0 - b.r]

\* int(c * (w / h)) as the code evaluates it (video_converter.py:322)
IntMulAspect(c, w, h) ==
    LET N == (c * w) \div h
        rem == (c * w) % h
        a == TrueDiv(w, h)
    IN  IF rem # 0 \/ N = 0 THEN N
        ELSE IF a.err >= 0 THEN N
        ELSE IF Pow2Greater(c * (0 - a.err), a.e + 1, a.den, ExpBelow(N))
             THEN N - 1 ELSE N

\* int(c / (w / h)) as the code evaluates it (video_converter.py:315);
\* used for w/h > 1 only, where den = h * 2^e
IntDivAspect(c, w, h) ==
    LET N == (c * h) \div w
        rem == (c * h) % w
        a == TrueDiv(w, h)
    IN  IF rem # 0 \/ N = 0 THEN N
        ELSE IF a.err <= 0 THEN N
        ELSE IF Pow2Greater(2 * N * a.err, 0, w, ExpBelow(N))
             THEN N - 1 ELSE N

\* input_aspect > target_aspect (video_converter.py:309-312): both quotients
\* are correctly rounded, and distinct quotients of integers this small
\* stay distinct after rounding, so the comparison is the exact one
WiderThanTarget(w, h) == w * target_height > h * target_width

\* the planner with the fitted width derived from the wrong target dimension
Geometry_wrongAxis(w, h) ==
    IF WiderThanTarget(w, h)
    THEN LET nh == IntDivAspect(target_width, w, h)
         IN  [new_width |-> target_width, new_height |-> nh,
              x_offset |-> 0, y_offset |-> (target_height - nh) \div 2]
    ELSE LET nw == IntMulAspect(target_width, w, h)
         IN  [new_width |-> nw, new_height |-> target_height,
              x_offset |-> (target_width - nw) \div 2, y_offset |-> 0]

\* the planner with the aspect ratio taken by integer division (w // h)
Geometry_floorAspect(w, h) ==
    LET q == w \div h
    IN  IF q * target_height > target_width
        THEN LET nh == target_width \div q
             IN  [new_width |-> target_width, new_height |-> nh,
                  x_offset |-> 0, y_offset |-> (target_height - nh) \div 2]
        ELSE LET nw == target_height * q
             IN  [new_width |-> nw, new_height |-> target_height,
                  x_offset |-> (target_width - nw) \div 2, y_offset |-> 0]

\* video_converter.py:312-325
Geometry(w, h) ==
    IF WiderThanTarget(w, h)
    THEN LET nh == IntDivAspect(target_width, w, h)
         IN  [new_width |-> target_width, new_height |-> nh,
              x_offset |-> 0, y_offset |-> (target_height - nh) \div 2]
    ELSE LET nw == IntMulAspect(target_height, w, h)
         IN  [new_width |-> nw, new_height |-> target_height,
              x_offset |-> (target_width - nw) \div 2, y_offset |-> 0]

\* the builder with the scale+pad pair emitted unconditionally
FilterChain_alwaysPad(nw, nh, xo, yo) ==
    << [name |-> "scale", w |-> nw, h |-> nh, x |-> 0, y |-> 0],
       [name |-> "pad", w |-> target_width, h |-> target_height, x |-> xo, y |-> yo] >>

\* video_converter.py:336-352
FilterChain(nw, nh, xo, yo) ==
    IF nw # target_width \/ nh # target_height
    THEN << [name |-> "scale", w |-> nw, h |-> nh, x |-> 0, y |-> 0],
            [name |-> "pad", w |-> target_width, h |-> target_height, x |-> xo, y |-> yo] >>
    ELSE << [name |-> "scale", w |-> target_width, h |-> target_height, x |-> 0, y |-> 0] >>


-----------------------------------------------------------------------------
(* Conversion orchestration: bot.py, and the transcode runner             *)
(* _convert_video_sync of video_converter.py.                              *)
(*                                                                         *)
(* The event loop runs one coroutine at a time, so everything a coroutine  *)
(* does between two awaits is one action.  _convert_video_sync runs in an  *)
(* executor thread (video_converter.py:171-177), so its steps interleave   *)
(* freely with the actions of the event loop.                              *)

\* number of submissions (and so of background tasks) in one run
MaxTasks == 2

Tasks == 1..MaxTasks
Users == {"u1"}
Files == {"f1"}

\* os.path.exists(path) is false
NoFile == -1

\* size of a downloaded input file (its value is never inspected)
InputSize == 1

\* bot.py:93-96, the standard Bot API (TELEGRAM_LOCAL_API_URL unset)
MAX_UPLOAD_SIZE == 52428800

\* sizes an encode can leave at the output path
OutputSizes == {MAX_UPLOAD_SIZE, MAX_UPLOAD_SIZE + 1}

\* bot.py:69, os.getenv default 'webapp/converted'
WebappDirConfigured == TRUE

\* video_converter.py:33, os.getenv default 'auto'
FFMPEG_HWACCEL == "auto"

\* bot.py:2603: main() stores the Application in globals() before polling,
\* so globals().get('application') is never None in a handler or task
ApplicationAvailable == TRUE

Flows == {"video", "url", "uploaded"}
Paths == {"downloads", "converted", "webapp/converted"} \X Flows \X Files

\* bot.py:710 / 1387 / 808
InputPath(r) == <<"downloads", r.flow, r.file>>
\* video_converter.py:163
OutputPath(r) == <<"converted", r.flow, r.file>>
\* bot.py:1003-1007
WebappOutputPath(r) == <<"webapp/converted", r.flow, r.file>>
\* bot.py:755 / 1474 / 985 / 801
ConversionKey(r) == <<r.user, r.flow, r.file>>

Exists(f, p) == f[p] # NoFile

\* pc, hpc: position of the background task and of the handler that made it;
\* phase: the stage of the job; force_cpu .. sync_result: the frame of
\* _convert_video_sync (launches counts the encode processes started,
\* retry_codec / retry_exit are the codec and exit that led to the recursive
\* call, last_exit is the exit of the encode launched last);
\* output_size .. send_error: locals of the background task; download: how
\* the download of the uploaded-file flow ended;
\* rm_input: os.remove(file_path) calls of the task; notif: what the user
\* was last told; sink_raised: a status edit raised into the task
FreeTask ==
    [pc |-> "free", hpc |-> "none", flow |-> "video", user |-> "u1", file |-> "f1",
     phase |-> "Idle", force_cpu |-> FALSE, video_codec |-> "none",
     launches |-> 0, retry_codec |-> "none", retry_exit |-> "none",
     last_exit |-> "none", sync_result |-> "none",
     output_size |-> NoFile, converted_url |-> FALSE, send_error |-> "none",
     download |-> "none", rm_input |-> 0, notif |-> "none", sink_raised |-> FALSE]

-----------------------------------------------------------------------------
(* safe_edit_text, bot.py:31-43 *)

\* what message.edit_text can do: succeed, raise "message is not modified",
\* raise anything else
EditOutcomes == {"ok", "not_modified", "error"}

\* bot.py:35-43: only the "not modified" error is swallowed
SafeEditRaises(e) == e = "error"

-----------------------------------------------------------------------------
(* _detect_hardware_acceleration, video_converter.py:67-148 *)

Encoders == {"h264_nvenc", "hevc_nvenc", "h264_vaapi", "h264_videotoolbox"}

\* outcomes of the NVENC test encode (video_converter.py:101-125)
TestOutcomes == {"ok", "lib_missing", "other_failure", "timeout"}

NoHardware == [type |-> "none", encoder |-> "none", available |-> FALSE]

\* query_ok: `ffmpeg -encoders` ran (otherwise video_converter.py:145-146);
\* listed: the encoders it named; test: the outcome of the NVENC test encode
DetectHardwareAcceleration(query_ok, listed, test) ==
    IF ~query_ok THEN NoHardware
    ELSE IF ("h264_nvenc" \in listed \/ "hevc_nvenc" \in listed)
            /\ test \in {"ok", "other_failure"}
         THEN [type |-> "nvenc", encoder |-> "h264_nvenc", available |-> TRUE]
    ELSE IF "h264_vaapi" \in listed
         THEN [type |-> "vaapi", encoder |-> "h264_vaapi", available |-> TRUE]
    ELSE IF "h264_videotoolbox" \in listed
         THEN [type |-> "videotoolbox", encoder |-> "h264_videotoolbox", available |-> TRUE]
    ELSE NoHardware

\* the codec choice without the force_cpu branch
SelectCodec_ignoreForce(force_cpu, hwaccel, hw) ==
    IF hwaccel = "none" THEN "libx264"
    ELSE IF hwaccel = "auto" /\ hw.available THEN hw.encoder
    ELSE IF hwaccel = "nvenc" THEN (IF hw.type = "nvenc" THEN "h264_nvenc" ELSE "libx264")
    ELSE IF hwaccel = "vaapi" /\ hw.type = "vaapi" THEN "h264_vaapi"
    ELSE IF hwaccel = "videotoolbox" /\ hw.type = "videotoolbox" THEN "h264_videotoolbox"
    ELSE "libx264"

\* video_converter.py:355-387
SelectCodec(force_cpu, hwaccel, hw) ==
    IF force_cpu THEN "libx264"
    ELSE IF hwaccel = "none" THEN "libx264"
    ELSE IF hwaccel = "auto" /\ hw.available THEN hw.encoder
    ELSE IF hwaccel = "nvenc" THEN (IF hw.type = "nvenc" THEN "h264_nvenc" ELSE "libx264")
    ELSE IF hwaccel = "vaapi" /\ hw.type = "vaapi" THEN "h264_vaapi"
    ELSE IF hwaccel = "videotoolbox" /\ hw.type = "videotoolbox" THEN "h264_videotoolbox"
    ELSE "libx264"

HardwareCodecs == {"h264_nvenc", "h264_vaapi", "h264_videotoolbox"}

-----------------------------------------------------------------------------
(* exit of the encode process, video_converter.py:561-593 *)

\* video_converter.py:568-573
nvenc_error_indicators ==
    { "Cannot load libnvidia-encode.so", "Error while opening encoder",
      "The minimum required Nvidia driver", "libnvidia-encode" }

\* diagnostic texts of a failed encode, each given as the set of the
\* substrings of interest it contains
StderrSamples ==
    { {"Conversion failed!"},
      {"Cannot load libnvidia-encode.so", "libnvidia-encode"},
      {"Error while opening encoder", "Conversion failed!"} }

\* video_converter.py:575
IsNvencError(stderr_output) == (stderr_output \cap nvenc_error_indicators) # {}

\* the retry decision without the check of the codec in use
RetryOnCpu_anyCodec(stderr_output, video_codec) == IsNvencError(stderr_output)

\* video_converter.py:578
RetryOnCpu(stderr_output, video_codec) ==
    IsNvencError(stderr_output) /\ video_codec = "h264_nvenc"

-----------------------------------------------------------------------------
(* pieces of _convert_video_background, bot.py:980-1220 *)

\* the comparison without its strictness
ExceedsCeiling_atOrAbove(output_size) == output_size >= MAX_UPLOAD_SIZE

\* bot.py:1029
ExceedsCeiling(output_size) == output_size > MAX_UPLOAD_SIZE

\* the table left as it is
ReleaseKey_keep(table, key) == table

\* bot.py:1062-1063, 1148-1149, 1173-1174, 1187-1188 and 976-977:
\* `if conversion_key in active_conversions: del active_conversions[...]`
ReleaseKey(table, key) == table \ {key}

Remove(f, p) == [f EXCEPT ![p] = NoFile]

\* The cleanup blocks; each yields the new file system and the number of
\* os.remove(file_path) calls it made.
\* bot.py:1055-1060: os.remove(file_path) raises when the file is gone and
\* the bare except then skips os.remove(output_path)
CleanupTooBig(f, r) ==
    [fs |-> IF Exists(f, InputPath(r))
            THEN Remove(Remove(f, InputPath(r)), OutputPath(r))
            ELSE f,
     removes |-> 1]

\* bot.py:1119-1145
CleanupDelivered(f, r) ==
    LET f1 == IF Exists(f, InputPath(r)) THEN Remove(f, InputPath(r)) ELSE f
    IN  [fs |-> IF WebappDirConfigured
                THEN IF Exists(f1, WebappOutputPath(r)) /\ Exists(f1, OutputPath(r))
                     THEN Remove(f1, OutputPath(r))
                     ELSE f1
                ELSE IF Exists(f1, OutputPath(r)) THEN Remove(f1, OutputPath(r)) ELSE f1,
         removes |-> IF Exists(f, InputPath(r)) THEN 1 ELSE 0]

\* bot.py:1166-1170
CleanupFailed(f, r) ==
    [fs |-> IF Exists(f, InputPath(r)) THEN Remove(f, InputPath(r)) ELSE f,
     removes |-> IF Exists(f, InputPath(r)) THEN 1 ELSE 0]

\* the frame of _convert_video_sync is gone once convert_video_to_mp4 has
\* returned (video_converter.py:179-188)
Returned(r) ==
    [r EXCEPT !.force_cpu = FALSE, !.video_codec = "none", !.launches = 0,
              !.retry_codec = "none", !.retry_exit = "none",
              !.last_exit = "none", !.sync_result = "none"]

\* control leaves the try block of the task for its except block
\* (bot.py:1175): the locals of the try block are not used again
Raised(r) ==
    [r EXCEPT !.pc = "exc_edit", !.sink_raised = TRUE, !.output_size = NoFile,
              !.converted_url = FALSE, !.send_error = "none"]

\* the task ends; what is kept of the job is its outcome
Finished(r, removes, terminal) ==
    [r EXCEPT !.pc = "done", !.phase = terminal, !.rm_input = @ + removes,
              !.send_error = "none", !.download = "none"]

-----------------------------------------------------------------------------
(* Handlers *)

\* the lowest free slot takes the next submission
NextFree(t) == task[t].pc = "free" /\ \A s \in Tasks : s < t => task[s].pc # "free"

\* no handler is inside the subprocess.run of bot.py:1519-1524: that call is
\* made on the thread of the event loop, which runs nothing else (no handler,
\* no step of a background task) until ffprobe has exited or timed out
LoopFree == \A t \in Tasks : task[t].hpc # "url_ffprobe"

\* _process_video_file up to the await of bot.py:744: the file is downloaded
\* to downloads/<file_id>.<ext> (bot.py:709-721)
VideoDownload(t, u, f) ==
    /\ LoopFree
    /\ NextFree(t)
    /\ task' = [task EXCEPT ![t] = [@ EXCEPT !.pc = "h_video_edit", !.flow = "video",
                                              !.user = u, !.file = f]]
    /\ fs' = [fs EXCEPT ![<<"downloads", "video", f>>] = InputSize]
    /\ UNCHANGED <<active_conversions, geomVars, sideVars>>

\* _process_video_file, bot.py:744-772: after the status edit the key is
\* registered and the background task created; an edit that raises ends the
\* handler in its except block (bot.py:777-785)
VideoSpawn(t) ==
    /\ LoopFree
    /\ task[t].pc = "h_video_edit"
    /\ \E e \in EditOutcomes :
         IF SafeEditRaises(e)
         THEN /\ task' = [task EXCEPT ![t] = [@ EXCEPT !.pc = "h_aborted"]]
              /\ UNCHANGED active_conversions
         ELSE /\ active_conversions' = active_conversions \cup {ConversionKey(task[t])}
              /\ task' = [task EXCEPT ![t] = [@ EXCEPT !.pc = "spawned", !.phase = "Queued"]]
    /\ UNCHANGED <<fs, geomVars, sideVars>>

\* handle_video_url up to the await of bot.py:1463: the file is downloaded
\* (bot.py:1343-1393)
UrlDownload(t, u, f) ==
    /\ LoopFree
    /\ NextFree(t)
    /\ task' = [task EXCEPT ![t] = [@ EXCEPT !.pc = "h_url_edit", !.flow = "url",
                                              !.user = u, !.file = f]]
    /\ fs' = [fs EXCEPT ![<<"downloads", "url", f>>] = InputSize]
    /\ UNCHANGED <<active_conversions, geomVars, sideVars>>

\* handle_video_url, bot.py:1463-1524: the key is registered and the task
\* created (1470-1491); then, in the same handler and without an await,
\* subprocess.run starts ffprobe on the file and waits for it (1519-1524)
UrlSpawnFirst(t) ==
    /\ LoopFree
    /\ task[t].pc = "h_url_edit"
    /\ \E e \in EditOutcomes :
         IF SafeEditRaises(e)
         THEN /\ task' = [task EXCEPT ![t] = [@ EXCEPT !.pc = "h_aborted"]]
              /\ UNCHANGED active_conversions
         ELSE /\ active_conversions' = active_conversions \cup {ConversionKey(task[t])}
              /\ task' = [task EXCEPT ![t] =
                             [@ EXCEPT !.pc = "spawned", !.phase = "Queued",
                                       !.hpc = "url_ffprobe"]]
    /\ UNCHANGED <<fs, geomVars, sideVars>>

\* handle_video_url, bot.py:1519-1550: ffprobe exits (or its 10 s timeout
\* expires) and the handler goes on to the await of the edit of 1528 (the
\* file was rejected) or of 1553
UrlFfprobeExit(t) ==
    /\ task[t].hpc = "url_ffprobe"
    /\ \E valid \in BOOLEAN :
         task' = [task EXCEPT ![t] = [@ EXCEPT !.hpc = IF valid THEN "url_again"
                                                         ELSE "url_invalid"]]
    /\ UNCHANGED <<active_conversions, fs, geomVars, sideVars>>

\* handle_video_url, bot.py:1526-1550: ffprobe rejected the file; after the
\* edit the handler removes the input file and returns; an edit that raises
\* is caught at 1548 and the handler goes on to the edit of 1553
UrlRejectFile(t) ==
    /\ LoopFree
    /\ task[t].hpc = "url_invalid"
    /\ \E e \in EditOutcomes :
         /\ fs' = IF SafeEditRaises(e) THEN fs ELSE Remove(fs, InputPath(task[t]))
         /\ task' = [task EXCEPT ![t] = [@ EXCEPT !.hpc = IF SafeEditRaises(e)
                                                         THEN "url_again" ELSE "none"]]
    /\ UNCHANGED <<active_conversions, geomVars, sideVars>>

\* handle_video_url, bot.py:1553-1585: after the second edit the handler
\* registers the same key again and creates a second background task
UrlSpawnSecond(t, t2) ==
    /\ LoopFree
    /\ task[t].hpc = "url_again"
    /\ NextFree(t2)
    /\ \E e \in EditOutcomes :
         IF SafeEditRaises(e)
         THEN /\ task' = [task EXCEPT ![t] = [@ EXCEPT !.hpc = "none"]]
              /\ UNCHANGED active_conversions
         ELSE /\ active_conversions' = active_conversions \cup {ConversionKey(task[t])}
              /\ task' = [task EXCEPT ![t] = [@ EXCEPT !.hpc = "none"],
                                      ![t2] = [@ EXCEPT !.pc = "spawned", !.phase = "Queued",
                                                        !.flow = "url", !.user = task[t].user,
                                                        !.file = task[t].file]]
    /\ UNCHANGED <<fs, geomVars, sideVars>>

\* button_handler / handle_text, bot.py:430-447, 581-597, 1742-1768: after
\* the status edit the task is created; no key is registered
UploadedSpawn(t, u, f) ==
    /\ LoopFree
    /\ NextFree(t)
    /\ task' = [task EXCEPT ![t] = [@ EXCEPT !.pc = "up_spawned", !.phase = "Queued",
                                              !.flow = "uploaded", !.user = u, !.file = f]]
    /\ UNCHANGED <<active_conversions, fs, geomVars, sideVars>>

-----------------------------------------------------------------------------
(* _convert_video_background, bot.py:980-1220 *)

ChatFlows == {"video", "url"}

\* bot.py:985-990 and convert_video_to_mp4, video_converter.py:162-177: a
\* missing input returns None at once (the task goes on to the edit of
\* bot.py:1154), otherwise _convert_video_sync starts in the executor
TaskStart(t) ==
    /\ LoopFree
    /\ task[t].pc = "spawned"
    /\ task[t].flow \in ChatFlows
    /\ task' = [task EXCEPT ![t] =
                   [@ EXCEPT !.pc = IF Exists(fs, InputPath(task[t])) THEN "sync_probe"
                                    ELSE "edit_failed"]]
    /\ UNCHANGED <<active_conversions, fs, geomVars, sideVars>>

ProbeOutcomes == {"ok", "ToolUnavailable", "NoVideoStream", "MalformedInput"}

\* _convert_video_sync, video_converter.py:205-301: the ffprobe check and
\* ffmpeg.probe; any failure raises out of _convert_video_sync.  The
\* recursive call of video_converter.py:581-584 starts here again.
SyncProbe(t) ==
    /\ task[t].pc = "sync_probe"
    /\ \E o \in ProbeOutcomes :
         /\ o = "ok" => Exists(fs, InputPath(task[t]))
         /\ task' = [task EXCEPT ![t] =
                        IF o = "ok"
                        THEN [@ EXCEPT !.pc = "sync_launch", !.phase = "Probing"]
                        ELSE [@ EXCEPT !.pc = "sync_done", !.phase = "Probing",
                                       !.sync_result = "raised"]]
    /\ UNCHANGED <<active_conversions, fs, geomVars, sideVars>>

\* _convert_video_sync, video_converter.py:354-487: the encoder is chosen
\* and the encode process launched
SyncLaunch(t) ==
    /\ task[t].pc = "sync_launch"
    /\ \E query_ok \in BOOLEAN, listed \in SUBSET Encoders, test \in TestOutcomes :
         LET codec == SelectCodec(task[t].force_cpu, FFMPEG_HWACCEL,
                                  DetectHardwareAcceleration(query_ok, listed, test))
         IN  task' = [task EXCEPT ![t] =
                         [@ EXCEPT !.pc = "sync_running", !.phase = "Encoding",
                                   !.video_codec = codec,
                                   !.launches = @ + 1,
                                   !.last_exit = "none"]]
    /\ UNCHANGED <<active_conversions, fs, geomVars, sideVars>>

\* what the exit of an encode is remembered as
ExitKind(rc, stderr_output) ==
    IF rc = 0 THEN "ok" ELSE IF IsNvencError(stderr_output) THEN "driver_failure" ELSE "failure"

\* _convert_video_sync, video_converter.py:555-598: the process exits, having
\* left some or no file at the output path; a driver failure of NVENC calls
\* _convert_video_sync again with force_cpu=True, any other failure raises
SyncExit(t) ==
    /\ task[t].pc = "sync_running"
    /\ \E rc \in {0, 1}, stderr_output \in StderrSamples, out \in OutputSizes \cup {NoFile} :
         /\ fs' = [fs EXCEPT ![OutputPath(task[t])] = out]
         /\ LET seen == [task[t] EXCEPT !.last_exit = ExitKind(rc, stderr_output)]
            IN  task' = [task EXCEPT ![t] =
                   IF rc = 0
                   THEN [seen EXCEPT !.pc = "sync_done", !.sync_result = "ok"]
                   ELSE IF RetryOnCpu(stderr_output, task[t].video_codec)
                   THEN [seen EXCEPT !.pc = "sync_probe", !.force_cpu = TRUE,
                                     !.retry_codec = task[t].video_codec,
                                     !.retry_exit = ExitKind(rc, stderr_output)]
                   ELSE [seen EXCEPT !.pc = "sync_done", !.sync_result = "raised"]]
    /\ UNCHANGED <<active_conversions, geomVars, sideVars>>

\* _convert_video_background, bot.py:990-1079 and 1152-1154, from the return
\* of convert_video_to_mp4 (video_converter.py:179-188) to the next await:
\* the size is read, the file copied to the web directory, and one of the
\* status edits started
TaskAfterConvert(t) ==
    /\ LoopFree
    /\ task[t].pc = "sync_done"
    /\ LET r == Returned(task[t])
           converted == task[t].sync_result = "ok" /\ Exists(fs, OutputPath(r))
       IN  IF converted
           THEN \E copy_ok \in BOOLEAN :
                  LET size == fs[OutputPath(r)]
                      copied == WebappDirConfigured /\ ~Exists(fs, WebappOutputPath(r)) /\ copy_ok
                      url == WebappDirConfigured /\ (Exists(fs, WebappOutputPath(r)) \/ copy_ok)
                  IN  /\ fs' = IF copied THEN [fs EXCEPT ![WebappOutputPath(r)] = size] ELSE fs
                      /\ task' = [task EXCEPT ![t] =
                             [r EXCEPT !.phase = "Finalizing",
                                       !.output_size = size,
                                       !.converted_url = url,
                                       !.pc = IF ExceedsCeiling(size) THEN "edit_toobig"
                                              ELSE IF url THEN "edit_link"
                                              ELSE "edit_sending"]]
           ELSE /\ task' = [task EXCEPT ![t] = [r EXCEPT !.pc = "edit_failed"]]
                /\ UNCHANGED fs
    /\ UNCHANGED <<active_conversions, geomVars, sideVars>>

EditPcs == {"edit_toobig", "edit_link", "edit_sending", "edit_noapp", "edit_senderr", "edit_failed"}

\* _convert_video_background: a status edit returns.  If it raised, control
\* goes to the except block (bot.py:1175-1178).  Otherwise the code after
\* the edit runs up to the next await or to the end of the task:
\*   edit_toobig  bot.py:1033-1064      edit_link    bot.py:1068-1076, 1118-1151
\*   edit_sending bot.py:1079-1095      edit_noapp   bot.py:1086-1087
\*   edit_senderr bot.py:1101-1151      edit_failed  bot.py:1154-1174
TaskEdit(t) ==
    /\ LoopFree
    /\ task[t].pc \in EditPcs
    /\ \E e \in EditOutcomes :
         LET r == task[t]
             k == ConversionKey(r)
         IN  IF SafeEditRaises(e)
             THEN /\ task' = [task EXCEPT ![t] = Raised(r)]
                  /\ UNCHANGED <<fs, active_conversions>>
             ELSE CASE r.pc = "edit_toobig" ->
                       LET c == CleanupTooBig(fs, r)
                           n == IF r.converted_url THEN "toobig_link" ELSE "toobig_nolink"
                       IN  /\ fs' = c.fs
                           /\ active_conversions' = ReleaseKey(active_conversions, k)
                           /\ task' = [task EXCEPT ![t] =
                                  Finished([r EXCEPT !.notif = n], c.removes, "Succeeded")]
                  [] r.pc = "edit_link" ->
                       LET c == CleanupDelivered(fs, r)
                       IN  /\ fs' = c.fs
                           /\ active_conversions' = ReleaseKey(active_conversions, k)
                           /\ task' = [task EXCEPT ![t] =
                                  Finished([r EXCEPT !.notif = "link"], c.removes, "Succeeded")]
                  [] r.pc = "edit_sending" ->
                       /\ task' = [task EXCEPT ![t] =
                              [r EXCEPT !.notif = "sending",
                                        !.pc = IF ~ApplicationAvailable THEN "edit_noapp"
                                               ELSE IF Exists(fs, OutputPath(r)) THEN "send_video"
                                               ELSE "edit_senderr",
                                        !.send_error = IF ApplicationAvailable
                                                          /\ ~Exists(fs, OutputPath(r))
                                                       THEN "other" ELSE @]]
                       /\ UNCHANGED <<fs, active_conversions>>
                  [] r.pc = "edit_noapp" ->
                       /\ task' = [task EXCEPT ![t] =
                              Finished([r EXCEPT !.notif = "send_failed"], 0, "Failed")]
                       /\ UNCHANGED <<fs, active_conversions>>
                  [] r.pc = "edit_senderr" ->
                       LET c == CleanupDelivered(fs, r)
                           n == IF r.send_error = "too_big" THEN "toobig_nolink" ELSE "send_failed"
                       IN  /\ fs' = c.fs
                           /\ active_conversions' = ReleaseKey(active_conversions, k)
                           /\ task' = [task EXCEPT ![t] =
                                  Finished([r EXCEPT !.notif = n], c.removes,
                                           IF r.send_error = "too_big" THEN "Succeeded" ELSE "Failed")]
                  [] r.pc = "edit_failed" ->
                       LET c == CleanupFailed(fs, r)
                       IN  /\ fs' = c.fs
                           /\ active_conversions' = ReleaseKey(active_conversions, k)
                           /\ task' = [task EXCEPT ![t] =
                                  Finished([r EXCEPT !.notif = "conv_failed"], c.removes, "Failed")]
    /\ UNCHANGED <<geomVars, sideVars>>

\* _convert_video_background, bot.py:1089-1116: app.bot.send_video returns
\* or raises; a failure is reported by one more status edit
TaskSendVideo(t) ==
    /\ LoopFree
    /\ task[t].pc = "send_video"
    /\ \E o \in {"ok", "too_big", "other"} :
         LET r == task[t]
         IN  IF o = "ok"
             THEN LET c == CleanupDelivered(fs, r)
                  IN  /\ fs' = c.fs
                      /\ active_conversions' = ReleaseKey(active_conversions, ConversionKey(r))
                      /\ task' = [task EXCEPT ![t] =
                             Finished([r EXCEPT !.notif = "sent"], c.removes, "Succeeded")]
             ELSE /\ task' = [task EXCEPT ![t] = [r EXCEPT !.pc = "edit_senderr", !.send_error = o]]
                  /\ UNCHANGED <<fs, active_conversions>>
    /\ UNCHANGED <<geomVars, sideVars>>

\* _convert_video_background, bot.py:1175-1207: the except block; its own
\* status edit is wrapped in try/except: pass, then the key is deleted and,
\* if it was present, the menu message is sent
TaskExceptEdit(t) ==
    /\ LoopFree
    /\ task[t].pc = "exc_edit"
    /\ \E e \in EditOutcomes :
         LET r == task[t]
             told == [r EXCEPT !.notif = IF SafeEditRaises(e) THEN @ ELSE "error"]
         IN  /\ active_conversions' = ReleaseKey(active_conversions, ConversionKey(r))
             /\ task' = [task EXCEPT ![t] =
                    IF ConversionKey(r) \in active_conversions
                    THEN [told EXCEPT !.pc = "exc_menu"]
                    ELSE Finished(told, 0, "Failed")]
    /\ UNCHANGED <<fs, geomVars, sideVars>>

\* _convert_video_background, bot.py:1201-1207: app.bot.send_message returns
\* or raises out of the task
TaskExceptMenu(t) ==
    /\ LoopFree
    /\ task[t].pc = "exc_menu"
    /\ \E o \in {"ok", "error"} :
         task' = [task EXCEPT ![t] = Finished(task[t], 0, "Failed")]
    /\ UNCHANGED <<active_conversions, fs, geomVars, sideVars>>

-----------------------------------------------------------------------------
(* _convert_uploaded_video_background, bot.py:788-977 *)

\* parameters of convert_video_to_mp4, video_converter.py:151
ConvertParameters == {"input_path", "file_id"}

\* arguments of the call at bot.py:835
UploadedCallArguments == {"input_path", "file_id", "max_size_mb"}

\* a call with a keyword the function does not take raises TypeError
CallRaisesTypeError(arguments, parameters) == ~(arguments \subseteq parameters)

\* bot.py:801-835 and 964-973: the download (it may fail before or after
\* the input file is created), then the call of convert_video_to_mp4, which
\* raises TypeError; either way control reaches the except block.  The rest
\* of the try block (bot.py:837-963) is never reached.
UploadedDownload(t) ==
    /\ LoopFree
    /\ task[t].pc = "up_spawned"
    /\ CallRaisesTypeError(UploadedCallArguments, ConvertParameters)
    /\ \E dl \in {"ok", "http_error", "broken_stream"} :
         /\ fs' = IF dl = "http_error" THEN fs
                  ELSE [fs EXCEPT ![InputPath(task[t])] = InputSize]
         /\ task' = [task EXCEPT ![t] = [@ EXCEPT !.pc = "up_exc_edit", !.download = dl]]
    /\ UNCHANGED <<active_conversions, geomVars, sideVars>>

\* bot.py:964-977: the status edit of the except block (try/except: pass)
\* and the deletion of the key
UploadedExceptEdit(t) ==
    /\ LoopFree
    /\ task[t].pc = "up_exc_edit"
    /\ \E e \in EditOutcomes :
         LET r == task[t]
         IN  /\ active_conversions' = ReleaseKey(active_conversions, ConversionKey(r))
             /\ task' = [task EXCEPT ![t] =
                    Finished([r EXCEPT !.notif = IF SafeEditRaises(e) THEN @ ELSE "error"],
                             0, "Failed")]
    /\ UNCHANGED <<fs, geomVars, sideVars>>

-----------------------------------------------------------------------------
(* one call of convert_video_to_mp4 and the branch its caller takes:      *)
(* video_converter.py:151-188, 191-622; bot.py:990-995, 1151-1161         *)

\* the substrings of a diagnostic text that the code looks for
\* (video_converter.py:568-573, 611-616)
CallSubstrings == {"Error while opening encoder", "codec", "invalid", "permission"}

\* video_converter.py:587 and 605
MAX_LEN == 4000

\* lengths of a diagnostic text, in characters
TextLengths == {100, MAX_LEN, MAX_LEN + 1}

\* a diagnostic text: the substrings of interest it contains and its length
StderrTexts == [text : SUBSET CallSubstrings, len : TextLengths]

EmptyText == [text |-> {}, len |-> 0]

\* video_converter.py:588-591 and 606-609: the length of stderr_output[-MAX_LEN:]
Trimmed(len) == IF len > MAX_LEN THEN MAX_LEN ELSE len

\* type: the exception class; kind: which message it carries; excerpt: the
\* length of the diagnostic text inside the message
NoError == [type |-> "none", kind |-> "none", excerpt |-> 0]

\* video_converter.py:600-619: what `except ffmpeg.Error` raises instead
ClassifyFfmpegError(stderr_output) ==
    IF "codec" \in stderr_output.text
    THEN [type |-> "ValueError", kind |-> "UnsupportedCodec",
          excerpt |-> Trimmed(stderr_output.len)]
    ELSE IF "invalid" \in stderr_output.text \/ "no such file" \in stderr_output.text
    THEN [type |-> "ValueError", kind |-> "CorruptOrMissingInput",
          excerpt |-> Trimmed(stderr_output.len)]
    ELSE IF "permission" \in stderr_output.text
    THEN [type |-> "PermissionError", kind |-> "PermissionDenied",
          excerpt |-> Trimmed(stderr_output.len)]
    ELSE [type |-> "RuntimeError", kind |-> "FFmpegError",
          excerpt |-> Trimmed(stderr_output.len)]

\* video_converter.py:586-593: what a non-zero exit of the encode raises; it
\* is a RuntimeError, so `except ffmpeg.Error` does not see it and
\* `except Exception` (620-622) raises it again unchanged
ExitError(stderr_output) ==
    [type |-> "RuntimeError", kind |-> "FFmpegError",
     excerpt |-> Trimmed(stderr_output.len)]

\* the probe treated as if it could not fail
ProbeRaises_never(outcome) == FALSE

\* video_converter.py:230-274: every outcome of the ffprobe check and of
\* ffmpeg.probe but a readable video stream raises
ProbeRaises(outcome) == outcome # "ok"

\* video_converter.py:238, 241, 264 (an ffmpeg.Error of ffmpeg.probe, then
\* 600-619), 274
ProbeError(outcome, stderr_output) ==
    IF outcome = "ToolUnavailable"
    THEN [type |-> "RuntimeError", kind |-> "ToolUnavailable", excerpt |-> 0]
    ELSE IF outcome = "NoVideoStream"
    THEN [type |-> "ValueError", kind |-> "NoVideoStream", excerpt |-> 0]
    ELSE ClassifyFfmpegError(stderr_output)

\* sizes of the file at the output path when the encode process has exited
CallOutputSizes == {NoFile, 0, 1}

\* pc: position in the call; force_cpu, depth: argument and nesting of
\* _convert_video_sync; probe: the outcome of the last probe; detected ..
\* hw_accel: whether _detect_hardware_acceleration ran, what its two
\* subprocesses answered and what it returned; tests_run, launches: test
\* encodes and encode processes started; rc, stderr: the exit of the last
\* encode process; error, raised_at: the exception _convert_video_sync
\* raised and where; out_size: the file at output_path; result: what
\* convert_video_to_mp4 returned; report, notified: the branch of the
\* caller and the text it showed
IdleCall ==
    [pc |-> "idle", force_cpu |-> FALSE, depth |-> 0, probe |-> "none",
     detected |-> FALSE, query_ok |-> FALSE, listed |-> {}, test |-> "not_run",
     hw_accel |-> NoHardware, tests_run |-> 0, video_codec |-> "none",
     launches |-> 0, rc |-> 0, stderr |-> EmptyText, error |-> NoError,
     raised_at |-> "none", out_size |-> NoFile, result |-> "unset",
     report |-> "unset", notified |-> "none"]

\* the variable of the call while something else is explored
CallIdle == call = IdleCall

-----------------------------------------------------------------------------
(* the encode process, its pipes and the two threads of the runner:       *)
(* video_converter.py:481-558                                             *)

\* writes a pipe holds before the next write blocks; the unit is one line of
\* the diagnostic stream or as much of the standard output
PipeCapacity == 2

\* writes of one child, longest
MaxWrites == 4

\* what a child writes before it exits, in order: "err" is a line on the
\* diagnostic stream, "out" a write on the standard output
RECURSIVE WritesUpTo(_)
WritesUpTo(n) ==
    IF n = 0 THEN { << >> }
    ELSE LET shorter == WritesUpTo(n - 1)
         IN  shorter \cup { Append(w, x) : w \in shorter, x \in {"err", "out"} }

Scripts == WritesUpTo(MaxWrites)

\* child: "running" or "exited", script: what it still writes; err_pipe,
\* out_pipe: writes held by the pipes of stderr=PIPE and stdout=PIPE
\* (video_converter.py:481-487); written: lines put on the diagnostic
\* stream so far; stderr_lines: lines the reader has appended (length of
\* the list of video_converter.py:505); reader: the thread of read_stderr;
\* waiter: the thread of _convert_video_sync; examined: the length of
\* ''.join(stderr_lines) when the exit was classified, -1 before
IdleProc ==
    [child |-> "none", script |-> << >>, err_pipe |-> 0, out_pipe |-> 0,
     written |-> 0, stderr_lines |-> 0, reader |-> "none", waiter |-> "none",
     rc |-> 0, examined |-> -1]

\* the variable of the process while something else is explored
ProcIdle == proc = IdleProc

-----------------------------------------------------------------------------
(* The system *)

\* the planner variables while the orchestration is explored
GeometryIdle ==
    /\ gpc = "probed" /\ width = target_width /\ height = target_height
    /\ video_info = [width |-> target_width, height |-> target_height]
    /\ new_width = 0 /\ new_height = 0 /\ x_offset = 0 /\ y_offset = 0
    /\ video_filters = << >>

\* bot.py:109-114: empty directories, empty active_conversions
PipelineIdle ==
    /\ active_conversions = {}
    /\ fs = [p \in Paths |-> NoFile]
    /\ task = [t \in Tasks |-> FreeTask]

\* the reader variables while something else is explored
RunIdle ==
    /\ run_pc = "idle" /\ duration = 0 /\ run_codec = "none" /\ attempts = 0
    /\ current_time = 0 /\ clock = 0 /\ last_log_time = 0 /\ progress = << >>

Init == GeometryIdle /\ PipelineIdle /\ RunIdle /\ CallIdle /\ ProcIdle

Next ==
    \/ \E t \in Tasks, u \in Users, f \in Files : VideoDownload(t, u, f)
    \/ \E t \in Tasks : VideoSpawn(t)
    \/ \E t \in Tasks, u \in Users, f \in Files : UrlDownload(t, u, f)
    \/ \E t \in Tasks : UrlSpawnFirst(t)
    \/ \E t \in Tasks : UrlFfprobeExit(t)
    \/ \E t \in Tasks : UrlRejectFile(t)
    \/ \E t, t2 \in Tasks : UrlSpawnSecond(t, t2)
    \/ \E t \in Tasks, u \in Users, f \in Files : UploadedSpawn(t, u, f)
    \/ \E t \in Tasks : TaskStart(t)
    \/ \E t \in Tasks : SyncProbe(t)
    \/ \E t \in Tasks : SyncLaunch(t)
    \/ \E t \in Tasks : SyncExit(t)
    \/ \E t \in Tasks : TaskAfterConvert(t)
    \/ \E t \in Tasks : TaskEdit(t)
    \/ \E t \in Tasks : TaskSendVideo(t)
    \/ \E t \in Tasks : TaskExceptEdit(t)
    \/ \E t \in Tasks : TaskExceptMenu(t)
    \/ \E t \in Tasks : UploadedDownload(t)
    \/ \E t \in Tasks : UploadedExceptEdit(t)

Spec == Init /\ [][Next]_vars

-----------------------------------------------------------------------------
(* One pass of _convert_video_sync through the planner and filter builder *)

InitGeometry ==
    /\ PipelineIdle /\ RunIdle /\ CallIdle /\ ProcIdle
    /\ gpc = "probed"
    /\ \E d \in Dims : /\ width = d[1] /\ height = d[2]
                        /\ video_info = [width |-> d[1], height |-> d[2]]
    /\ new_width = 0 /\ new_height = 0 /\ x_offset = 0 /\ y_offset = 0
    /\ video_filters = << >>

\* video_converter.py:308-325
PlanGeometry ==
    /\ gpc = "probed"
    /\ LET g == Geometry(width, height)
       IN  /\ new_width' = g.new_width
           /\ new_height' = g.new_height
           /\ x_offset' = g.x_offset
           /\ y_offset' = g.y_offset
    /\ gpc' = "planned"
    /\ UNCHANGED <<video_info, width, height, video_filters, pipeVars, sideVars>>

\* video_converter.py:336-352
BuildFilters ==
    /\ gpc = "planned"
    /\ video_filters' = FilterChain(new_width, new_height, x_offset, y_offset)
    /\ gpc' = "built"
    /\ UNCHANGED <<video_info, width, height, new_width, new_height, x_offset, y_offset, pipeVars, sideVars>>

NextGeometry == PlanGeometry \/ BuildFilters

SpecGeometry == InitGeometry /\ [][NextGeometry]_vars

-----------------------------------------------------------------------------
(* The same pass, from what the probe reported about the frame size       *)

\* the entry is missing from video_info
Omitted == -1

\* what ffprobe can report as a width or a height: nothing, zero, or a
\* positive number
ReportedDims == {Omitted} \cup (0..MaxDim) \cup {target_width, target_height}

\* video_converter.py:300-301: int(video_info.get(key, default))
IntOrDefault(entry, default) == IF entry = Omitted THEN default ELSE entry

InitDimensions ==
    /\ PipelineIdle /\ RunIdle /\ CallIdle /\ ProcIdle
    /\ gpc = "reported"
    /\ video_info \in [width : ReportedDims, height : ReportedDims]
    /\ width = 0 /\ height = 0
    /\ new_width = 0 /\ new_height = 0 /\ x_offset = 0 /\ y_offset = 0
    /\ video_filters = << >>

\* video_converter.py:300-301
ReadDimensions ==
    /\ gpc = "reported"
    /\ width' = IntOrDefault(video_info.width, 1920)
    /\ height' = IntOrDefault(video_info.height, 1080)
    /\ gpc' = "probed"
    /\ UNCHANGED <<video_info, new_width, new_height, x_offset, y_offset, video_filters, pipeVars, sideVars>>

\* video_converter.py:309 with height = 0: width / height raises
\* ZeroDivisionError, which leaves _convert_video_sync through the handler
\* of video_converter.py:620-622
PlanRaises ==
    /\ gpc = "probed" /\ height = 0
    /\ gpc' = "raised"
    /\ UNCHANGED <<video_info, width, height, new_width, new_height, x_offset, y_offset,
                   video_filters, pipeVars, sideVars>>

\* video_converter.py:309-325 with width = 0 and height > 0: input_aspect
\* is 0.0, the else branch is taken and int(target_height * 0.0) is 0
PlanZeroWidth ==
    /\ gpc = "probed" /\ width = 0 /\ height > 0
    /\ new_height' = target_height
    /\ new_width' = 0
    /\ x_offset' = (target_width - 0) \div 2
    /\ y_offset' = 0
    /\ gpc' = "planned"
    /\ UNCHANGED <<video_info, width, height, video_filters, pipeVars, sideVars>>

NextDimensions ==
    \/ ReadDimensions
    \/ PlanRaises
    \/ PlanZeroWidth
    \/ (width > 0 /\ height > 0 /\ PlanGeometry)
    \/ BuildFilters

SpecDimensions == InitDimensions /\ [][NextDimensions]_vars

-----------------------------------------------------------------------------
(* One run of _convert_video_sync seen from read_stderr,                  *)
(* video_converter.py:501-563, with the recursive call of 577-584         *)

\* wall seconds explored after the first launch
MaxClock == 10

\* progress reports kept
MaxProgress == 4

\* video_converter.py:504
log_interval == 5

\* time.time() when the first encode process is launched
Epoch == 1000000

\* probed durations in seconds: unknown, or known
Durations == {0, 200}

\* time= values ffmpeg prints, in seconds
TimeSamples == {50, 198, 199, 200}

\* wall seconds between two lines of the diagnostic stream
WallSteps == {0, 5}

\* video_converter.py:525, min(100, (current_time / duration) * 100), kept
\* in tenths of a percent (truncated)
PercentTenths(ct, d) ==
    LET p == (ct * 1000) \div d IN IF p > 1000 THEN 1000 ELSE p

\* video_converter.py:531: now - last_log_time >= log_interval or
\* percent >= 99.9
ShouldLog(now, last, tenths) == now - last >= log_interval \/ tenths >= 999

InitProgress ==
    /\ GeometryIdle /\ PipelineIdle /\ CallIdle /\ ProcIdle
    /\ run_pc = "encoding"
    /\ duration \in Durations
    /\ run_codec \in {"libx264"} \cup HardwareCodecs
    /\ attempts = 1
    /\ current_time = 0 /\ clock = 0 /\ last_log_time = 0 /\ progress = << >>

\* read_stderr, video_converter.py:508-547: one line with time= arrives;
\* within one process the printed time does not go back
ProgressLine(ct, dt) ==
    /\ run_pc = "encoding"
    /\ ct >= current_time
    /\ clock + dt <= MaxClock
    /\ Len(progress) < MaxProgress
    /\ clock' = clock + dt
    /\ current_time' = ct
    /\ LET now == Epoch + clock + dt
           logged == /\ ct # 0 /\ duration > 0
                     /\ ShouldLog(now, last_log_time, PercentTenths(ct, duration))
       IN  IF logged
           THEN /\ progress' = Append(progress, PercentTenths(ct, duration))
                /\ last_log_time' = now
           ELSE UNCHANGED <<progress, last_log_time>>
    /\ UNCHANGED <<run_pc, duration, run_codec, attempts, geomVars, pipeVars, call, proc>>

\* video_converter.py:555-598: the process exits; the recursive call
\* starts a new frame (last_log_time = 0) with force_cpu=True
EncodeExit(rc, stderr_output) ==
    /\ run_pc = "encoding"
    /\ IF rc = 0
       THEN /\ run_pc' = "succeeded"
            /\ UNCHANGED <<run_codec, attempts, current_time, last_log_time>>
       ELSE IF RetryOnCpu(stderr_output, run_codec)
       THEN /\ run_pc' = "encoding"
            /\ run_codec' = SelectCodec(TRUE, FFMPEG_HWACCEL, NoHardware)
            /\ attempts' = attempts + 1
            /\ current_time' = 0
            /\ last_log_time' = 0
       ELSE /\ run_pc' = "failed"
            /\ UNCHANGED <<run_codec, attempts, current_time, last_log_time>>
    /\ UNCHANGED <<duration, clock, progress, geomVars, pipeVars, call, proc>>

NextProgress ==
    \/ \E ct \in TimeSamples, dt \in WallSteps : ProgressLine(ct, dt)
    \/ \E rc \in {0, 1}, stderr_output \in StderrSamples : EncodeExit(rc, stderr_output)

SpecProgress == InitProgress /\ [][NextProgress]_vars

-----------------------------------------------------------------------------
(* Specification of one call of convert_video_to_mp4, from its entry to   *)
(* the branch of the caller                                               *)

InitCall ==
    /\ GeometryIdle /\ PipelineIdle /\ RunIdle /\ ProcIdle
    /\ call = [IdleCall EXCEPT !.pc = "entry"]

\* video_converter.py:165-168: a missing input file returns None at once;
\* otherwise _convert_video_sync is handed to the executor (170-177)
CallEntry(input_exists) ==
    /\ call.pc = "entry"
    /\ call' = IF input_exists
               THEN [call EXCEPT !.pc = "probe"]
               ELSE [call EXCEPT !.pc = "returned", !.result = "None"]
    /\ UNCHANGED <<geomVars, pipeVars, runVars, proc>>

\* video_converter.py:230-274: the ffprobe check and ffmpeg.probe; a failure
\* raises before anything else of the frame has run
CallProbe(outcome, stderr_output) ==
    /\ call.pc = "probe"
    /\ call' = IF ProbeRaises(outcome)
               THEN [call EXCEPT !.pc = "raised", !.probe = outcome,
                                 !.stderr = IF outcome = "MalformedInput"
                                            THEN stderr_output ELSE @,
                                 !.error = ProbeError(outcome, stderr_output),
                                 !.raised_at = "probe"]
               ELSE [call EXCEPT !.pc = "select", !.probe = outcome]
    /\ UNCHANGED <<geomVars, pipeVars, runVars, proc>>

\* what the two subprocesses of _detect_hardware_acceleration can answer:
\* the listing fails, or names some encoders; the NVENC test encode runs only
\* when the listing names an NVENC encoder (video_converter.py:97)
DetectionAnswers ==
    { [query_ok |-> FALSE, listed |-> {}, test |-> "not_run"] }
    \cup { [query_ok |-> TRUE, listed |-> l, test |-> "not_run"] :
             l \in SUBSET (Encoders \ {"h264_nvenc", "hevc_nvenc"}) }
    \cup { a \in [query_ok : {TRUE}, listed : SUBSET Encoders, test : TestOutcomes] :
             "h264_nvenc" \in a.listed \/ "hevc_nvenc" \in a.listed }

\* video_converter.py:355-387 and 481: with force_cpu the detection is
\* skipped; otherwise it runs and the codec is chosen from its result; then
\* the encode process is started
CallSelect(a) ==
    /\ call.pc = "select"
    /\ IF call.force_cpu \/ FFMPEG_HWACCEL = "none"
       THEN call' = [call EXCEPT !.pc = "encoding",
                                 !.video_codec = SelectCodec(call.force_cpu, FFMPEG_HWACCEL, NoHardware),
                                 !.launches = @ + 1]
       ELSE LET hw == DetectHardwareAcceleration(a.query_ok, a.listed, a.test)
            IN  call' = [call EXCEPT !.pc = "encoding", !.detected = TRUE,
                                     !.query_ok = a.query_ok, !.listed = a.listed,
                                     !.test = a.test, !.hw_accel = hw,
                                     !.tests_run = IF a.test = "not_run" THEN @ ELSE @ + 1,
                                     !.video_codec = SelectCodec(FALSE, FFMPEG_HWACCEL, hw),
                                     !.launches = @ + 1]
    /\ UNCHANGED <<geomVars, pipeVars, runVars, proc>>

\* video_converter.py:555-598: the process exits with rc and stderr_output,
\* leaving a file of `size` (or none) at the output path; a driver failure
\* of NVENC enters _convert_video_sync again with force_cpu=True and fresh
\* locals, any other non-zero exit raises
CallExit(rc, stderr_output, size) ==
    /\ call.pc = "encoding"
    /\ call' = IF rc = 0
               THEN [call EXCEPT !.pc = "finished", !.rc = 0, !.out_size = size]
               ELSE IF RetryOnCpu(stderr_output.text, call.video_codec)
               THEN [call EXCEPT !.pc = "probe", !.rc = rc, !.out_size = size,
                                 !.stderr = EmptyText, !.force_cpu = TRUE,
                                 !.depth = @ + 1]
               ELSE [call EXCEPT !.pc = "raised", !.rc = rc, !.out_size = size,
                                 !.stderr = stderr_output,
                                 !.error = ExitError(stderr_output),
                                 !.raised_at = "exit"]
    /\ UNCHANGED <<geomVars, pipeVars, runVars, proc>>

\* video_converter.py:179-188: after a normal return the path is returned if
\* a file exists there; any exception is logged and None is returned
CallReturn ==
    /\ call.pc \in {"finished", "raised"}
    /\ call' = [call EXCEPT !.pc = "returned",
                            !.result = IF call.pc = "finished" /\ call.out_size # NoFile
                                       THEN "path" ELSE "None"]
    /\ UNCHANGED <<geomVars, pipeVars, runVars, proc>>

\* bot.py:992 and 1151-1161: the caller takes the success branch when it got
\* a path and the file exists, and otherwise shows one fixed text
CallReport ==
    /\ call.pc = "returned"
    /\ LET converted == call.result = "path" /\ call.out_size # NoFile
       IN  call' = [call EXCEPT !.pc = "reported",
                                !.report = IF converted THEN "succeeded" ELSE "failed",
                                !.notified = IF converted THEN "delivered"
                                             ELSE "could_not_convert"]
    /\ UNCHANGED <<geomVars, pipeVars, runVars, proc>>

NextCall ==
    \/ \E input_exists \in BOOLEAN : CallEntry(input_exists)
    \/ \E outcome \in ProbeOutcomes, stderr_output \in StderrTexts :
          CallProbe(outcome, stderr_output)
    \/ \E a \in DetectionAnswers : CallSelect(a)
    \/ \E rc \in {0, 1}, stderr_output \in StderrTexts, size \in CallOutputSizes :
          CallExit(rc, stderr_output, size)
    \/ CallReturn
    \/ CallReport

SpecCall == InitCall /\ [][NextCall]_vars

-----------------------------------------------------------------------------
(* Specification of one encode process and the two threads around it      *)

\* video_converter.py:481-487 and 550-552: the process and the reader
\* thread have been started, the caller is about to wait
InitProcess ==
    /\ GeometryIdle /\ PipelineIdle /\ RunIdle /\ CallIdle
    /\ \E w \in Scripts :
         proc = [IdleProc EXCEPT !.child = "running", !.script = w,
                                 !.reader = "reading", !.waiter = "waiting"]

\* the child does its next write; a write to a full pipe blocks until
\* somebody has read from that pipe
ChildWrite ==
    /\ proc.child = "running"
    /\ proc.script # << >>
    /\ IF Head(proc.script) = "err"
       THEN /\ proc.err_pipe < PipeCapacity
            /\ proc' = [proc EXCEPT !.script = Tail(@), !.err_pipe = @ + 1,
                                    !.written = @ + 1]
       ELSE /\ proc.out_pipe < PipeCapacity
            /\ proc' = [proc EXCEPT !.script = Tail(@), !.out_pipe = @ + 1]
    /\ UNCHANGED <<geomVars, pipeVars, runVars, call>>

\* the child has written everything and exits, closing its ends
ChildExit(rc) ==
    /\ proc.child = "running"
    /\ proc.script = << >>
    /\ proc' = [proc EXCEPT !.child = "exited", !.rc = rc]
    /\ UNCHANGED <<geomVars, pipeVars, runVars, call>>

\* read_stderr, video_converter.py:510-514: readline returns a line, which
\* is appended; or (547-548) decoding or handling the line raises, which is
\* logged and ends the thread
ReaderLine(raises) ==
    /\ proc.reader = "reading"
    /\ proc.err_pipe > 0
    /\ proc' = IF raises
               THEN [proc EXCEPT !.err_pipe = @ - 1, !.reader = "raised"]
               ELSE [proc EXCEPT !.err_pipe = @ - 1, !.stderr_lines = @ + 1]
    /\ UNCHANGED <<geomVars, pipeVars, runVars, call>>

\* read_stderr, video_converter.py:510-513: readline returns '' when the
\* pipe is empty and its writing end is closed
ReaderEof ==
    /\ proc.reader = "reading"
    /\ proc.err_pipe = 0
    /\ proc.child = "exited"
    /\ proc' = [proc EXCEPT !.reader = "ended"]
    /\ UNCHANGED <<geomVars, pipeVars, runVars, call>>

\* video_converter.py:555: process.wait() returns once the child has exited
WaitReturns ==
    /\ proc.waiter = "waiting"
    /\ proc.child = "exited"
    /\ proc' = [proc EXCEPT !.waiter = "joining"]
    /\ UNCHANGED <<geomVars, pipeVars, runVars, call>>

\* video_converter.py:558-575: stderr_thread.join(timeout=1) returns when
\* the reader has ended, and after one second whether it has or not; then the
\* return code is tested and, if non-zero, the lines appended so far are
\* joined and examined
JoinAndExamine ==
    /\ proc.waiter = "joining"
    /\ proc' = [proc EXCEPT !.waiter = "returned",
                            !.examined = IF proc.rc # 0 THEN proc.stderr_lines ELSE @]
    /\ UNCHANGED <<geomVars, pipeVars, runVars, call>>

NextProcess ==
    \/ ChildWrite
    \/ \E rc \in {0, 1} : ChildExit(rc)
    \/ \E raises \in BOOLEAN : ReaderLine(raises)
    \/ ReaderEof
    \/ WaitReturns
    \/ JoinAndExamine

SpecProcess == InitProcess /\ [][NextProcess]_vars

-----------------------------------------------------------------------------
(* Properties of the orchestration and of the transcode runner *)

\* the task was registered under its key and has not yet reached the
\* deletion of the key
Holding(t) ==
    /\ task[t].flow \in ChatFlows
    /\ task[t].pc \in {"spawned", "sync_probe", "sync_launch", "sync_running",
                       "sync_done", "send_video", "exc_edit"} \cup EditPcs

\* C1: once the background task of a registered job has finished, by any
\* path, the job's key is absent from active_conversions: a key in the table
\* always belongs to a task that has not yet reached its deletion of the key.
C1_KeyReleased ==
    \A k \in active_conversions :
        \E t \in Tasks : Holding(t) /\ ConversionKey(task[t]) = k

C1_Witness ==
    \E t \in Tasks :
        /\ task[t].pc = "done" /\ task[t].flow \in ChatFlows
        /\ task[t].sink_raised /\ task[t].notif = "error"
        /\ ConversionKey(task[t]) \notin active_conversions

\* C2 as stated: when a background task finishes, by any path, the input
\* file of its job no longer exists and the task called os.remove on it
\* exactly once.
C2_InputDeletedOnce ==
    [][\A t \in Tasks :
          (task[t].pc # "done" /\ task'[t].pc = "done") =>
              /\ ~Exists(fs', InputPath(task'[t]))
              /\ task'[t].rm_input = 1]_vars

\* C3: a job launches at most two encode processes; the second is launched
\* only after an attempt on a hardware encoder exited with the driver-failure
\* signature, it uses libx264, and its failure ends the runner even when the
\* diagnostic text again carries the signature.
C3_AtMostOneSoftwareRetry ==
    \A t \in Tasks :
        /\ task[t].launches <= 2
        /\ (task[t].launches = 2 \/ task[t].force_cpu) =>
               /\ task[t].force_cpu
               /\ task[t].retry_codec \in HardwareCodecs
               /\ task[t].retry_exit = "driver_failure"
        /\ task[t].launches = 2 => task[t].video_codec = "libx264"
        /\ (task[t].launches = 2 /\ task[t].last_exit \in {"failure", "driver_failure"}) =>
               /\ task[t].pc = "sync_done"
               /\ task[t].sync_result = "raised"

C3_Witness ==
    \E t \in Tasks :
        /\ task[t].launches = 2 /\ task[t].video_codec = "libx264"
        /\ task[t].last_exit = "driver_failure"
        /\ task[t].pc = "sync_done" /\ task[t].sync_result = "raised"

\* the terminal notification names the link and carries no file
LinkOnly(r) == r.notif \in {"link", "toobig_link"}

Rank(phase) ==
    CASE phase = "Idle" -> 0
      [] phase = "Queued" -> 1
      [] phase = "Probing" -> 2
      [] phase = "Encoding" -> 3
      [] phase = "Finalizing" -> 4
      [] phase \in {"Succeeded", "Failed"} -> 5

\* C5 as stated: the phases of a job occur in the order Queued, Probing,
\* Encoding, Finalizing, terminal; no phase is entered after a later one has
\* begun, the fallback to software included.
C5_PhasesNeverRegress ==
    [][\A t \in Tasks : Rank(task'[t].phase) >= Rank(task[t].phase)]_vars

\* C5 amended: the phases of a job occur in that order except that the
\* fallback to software goes from Encoding back to Probing, once, after the
\* first encode; no other phase is entered after a later one has begun.
C5_PhasesRegressOnlyOnFallback ==
    [][\A t \in Tasks :
          \/ Rank(task'[t].phase) >= Rank(task[t].phase)
          \/ /\ task[t].phase = "Encoding" /\ task'[t].phase = "Probing"
             /\ task[t].force_cpu /\ task[t].launches = 1]_vars

C5_Witness ==
    \E t \in Tasks :
        /\ task[t].phase = "Probing" /\ task[t].pc = "sync_launch"
        /\ task[t].force_cpu /\ task[t].launches = 1

\* C6 as stated: a status edit that raises never aborts the job; the task
\* does not enter its except block, it deletes the input file and it ends
\* as it does when the edit succeeds.
C6_SinkFailureNeverAborts ==
    \A t \in Tasks :
        task[t].sink_raised =>
            /\ task[t].pc \notin {"exc_edit", "exc_menu"}
            /\ task[t].pc = "done" => (task[t].rm_input = 1 /\ task[t].notif # "error")

\* C7 as stated: at any time at most one background task is registered and
\* running for a conversion key.
C7_OneTaskPerKey ==
    \A t1, t2 \in Tasks :
        (t1 # t2 /\ Holding(t1) /\ Holding(t2)) =>
            ConversionKey(task[t1]) # ConversionKey(task[t2])

\* C14: no probe or encode process is ever waited for on the thread of the
\* event loop: at every moment, and so while any job's probe or encode is in
\* progress, the loop is free to run a handler or a step of a task, and no
\* submit handler is waiting for an external media process.
C14_LoopNeverBlocked == LoopFree

\* C23: when a job ends successfully, its cleanup deletes the transient
\* output file only if the copy in the public directory exists at that
\* moment, and no step ever deletes a copy in the public directory.
C23_OutputDeletedOnlyIfCopied ==
    [][\A t \in Tasks :
          /\ (/\ task[t].pc \in EditPcs
              /\ task'[t].pc = "done" /\ task'[t].phase = "Succeeded"
              /\ Exists(fs, OutputPath(task[t]))
              /\ ~Exists(fs', OutputPath(task[t])))
                => Exists(fs', WebappOutputPath(task[t]))
          /\ Exists(fs, WebappOutputPath(task[t]))
                => Exists(fs', WebappOutputPath(task[t]))]_vars

\* the job of slot t has been handed to a background task that has not
\* ended
ActiveJob(t) == Holding(t) \/ task[t].pc \in {"up_spawned", "up_exc_edit"}

\* C24: no two jobs that are active at the same time have the same input
\* path or the same output path.
C24_PathsNeverShared ==
    \A t1, t2 \in Tasks :
        (t1 # t2 /\ ActiveJob(t1) /\ ActiveJob(t2)) =>
            /\ InputPath(task[t1]) # InputPath(task[t2])
            /\ OutputPath(task[t1]) # OutputPath(task[t2])

\* C25: while a job is active, its input file and its output file are
\* created, overwritten or deleted only by steps of the job's own background
\* task (the steps that move the position of that task), not by the
\* submitting handler and not by the task of another job.
C25_FilesOwnedByJob ==
    [][\A t \in Tasks :
          (/\ ActiveJob(t)
           /\ \/ fs'[InputPath(task[t])] # fs[InputPath(task[t])]
              \/ fs'[OutputPath(task[t])] # fs[OutputPath(task[t])])
            => task'[t].pc # task[t].pc]_vars

\* C26: a job of the uploaded-file flow whose download succeeded goes on to
\* the conversion: it is not in the except block of its task without having
\* reached the probe.
C26_UploadedReachesPipeline ==
    \A t \in Tasks : task[t].download = "ok" => task[t].pc # "up_exc_edit"

\* what the user can be told last about a job
TerminalNotifs ==
    {"toobig_link", "toobig_nolink", "link", "sent", "send_failed", "conv_failed", "error"}

\* C28: exactly one terminal outcome is reported for a job.  Two consequences
\* are stated: the submitting handler does not report a failure of a job
\* whose task has already reported its outcome, and a task does not end
\* without an outcome having been reported.
C28_ExactlyOneOutcome ==
    [][\A t \in Tasks :
          /\ (task[t].hpc = "url_invalid" /\ task'[t].hpc = "none")
                => ~(task[t].pc = "done" /\ task[t].notif \in TerminalNotifs)
          /\ (task[t].pc # "done" /\ task'[t].pc = "done")
                => task'[t].notif \in TerminalNotifs]_vars

\* C29: when a job ends with a failed conversion, no file is left at its
\* output path.
C29_NoOutputAfterFailure ==
    [][\A t \in Tasks :
          (task[t].pc # "done" /\ task'[t].pc = "done" /\ task'[t].notif = "conv_failed")
            => ~Exists(fs', OutputPath(task[t]))]_vars

-----------------------------------------------------------------------------
(* Properties of the geometry planner and the filter builder *)

HasFilter(name) == \E i \in 1..Len(video_filters) : video_filters[i].name = name

SameAspect == width * target_height = height * target_width

\* C8: for positive source dimensions and the 1920x1080 target the planned
\* geometry stays inside the canvas, both pad offsets are non-negative, the
\* offset on the fixed axis is 0 and the one on the other axis is
\* floor((target - scaled) / 2); 3840x1600 gives 1920x800 with pad (0, 140).
C8_GeometryInsideCanvas ==
    gpc # "probed" =>
        /\ new_width <= target_width /\ new_height <= target_height
        /\ x_offset >= 0 /\ y_offset >= 0
        /\ WiderThanTarget(width, height) =>
               /\ new_width = target_width /\ x_offset = 0
               /\ y_offset = (target_height - new_height) \div 2
        /\ ~WiderThanTarget(width, height) =>
               /\ new_height = target_height /\ y_offset = 0
               /\ x_offset = (target_width - new_width) \div 2
        /\ (width = 3840 /\ height = 1600) =>
               /\ new_width = 1920 /\ new_height = 800
               /\ x_offset = 0 /\ y_offset = 140

C8_Witness ==
    /\ gpc = "planned" /\ width = 3840 /\ height = 1600
    /\ new_height = 800 /\ y_offset = 140

\* C9: exactly one scaled dimension equals its target when the source
\* aspect ratio differs from 16:9, and both do, with no padding, when the
\* aspect ratios are equal.
C9_TightAxis ==
    gpc # "probed" =>
        /\ ~SameAspect => ((new_width = target_width) # (new_height = target_height))
        /\ SameAspect => /\ new_width = target_width /\ new_height = target_height
                          /\ x_offset = 0 /\ y_offset = 0

C9_Witness ==
    /\ gpc = "planned" /\ width = 3840 /\ height = 2160
    /\ new_width = target_width /\ new_height = target_height

\* C10 as stated: with scaledW = targetW and scaledH = targetH the filter
\* chain holds neither a pad filter nor a scale filter.
C10_NoFilterAtAll ==
    (gpc = "built" /\ new_width = target_width /\ new_height = target_height) =>
        (~HasFilter("pad") /\ ~HasFilter("scale"))

\* C10 amended: with scaledW = targetW and scaledH = targetH the filter chain
\* holds no pad filter and exactly one filter, a scale to the target size.
C10_ScaleOnlyNoPad ==
    (gpc = "built" /\ new_width = target_width /\ new_height = target_height) =>
        /\ ~HasFilter("pad")
        /\ Len(video_filters) = 1
        /\ video_filters[1].name = "scale"
        /\ video_filters[1].w = target_width /\ video_filters[1].h = target_height

C10_Witness ==
    /\ gpc = "built" /\ width = 1280 /\ height = 720
    /\ new_width = target_width /\ new_height = target_height
    /\ Len(video_filters) = 1

\* the probe gave no usable width or no usable height
Degenerate == video_info.width \in {Omitted, 0} \/ video_info.height \in {Omitted, 0}

\* C11 as stated: when the probe reports a width or height of zero, or
\* omits one, planning does not raise a division by zero, the source
\* dimensions are the target dimensions and the geometry is the no-op one.
C11_DegenerateGivesNoOp ==
    (Degenerate /\ gpc # "reported") =>
        /\ gpc # "raised"
        /\ width = target_width /\ height = target_height
        /\ gpc \in {"planned", "built"} =>
               /\ new_width = target_width /\ new_height = target_height
               /\ x_offset = 0 /\ y_offset = 0

\* C30: for all positive source dimensions both planned scaled dimensions
\* are at least 1: the scale filter is never given a zero width or height.
C30_ScaledDimsPositive ==
    (gpc \in {"planned", "built"} /\ width > 0 /\ height > 0) =>
        (new_width >= 1 /\ new_height >= 1)

-----------------------------------------------------------------------------
(* Properties of the progress reports *)

NonDecreasing(seq) == \A i, j \in 1..Len(seq) : i < j => seq[i] <= seq[j]

\* C12 as stated: with a known duration the percentages logged over the
\* whole job, the software retry included, never decrease, and the last one
\* logged before a successful end is at least 99.
C12_ProgressMonotoneToEnd ==
    duration > 0 =>
        /\ NonDecreasing(progress)
        /\ (run_pc = "succeeded" /\ progress # << >>) =>
               progress[Len(progress)] >= 990

\* C21: with an unknown duration (0) the reader still reports that the
\* conversion is in progress, at the cadence of the known case: once a line
\* with an elapsed-time marker has been read (the first one is always a whole
\* interval after last_log_time = 0), a report has been emitted.
C21_UnknownDurationStillReports ==
    (duration = 0 /\ current_time > 0) => progress # << >>

-----------------------------------------------------------------------------
(* Properties of the encode process and its threads *)

\* the child is blocked in a write and nothing that could unblock it can
\* happen: the pipe it writes to is full and is not being read
ChildStuck ==
    /\ proc.child = "running" /\ proc.script # << >>
    /\ \/ Head(proc.script) = "out" /\ proc.out_pipe = PipeCapacity
       \/ /\ Head(proc.script) = "err" /\ proc.err_pipe = PipeCapacity
          /\ proc.reader # "reading"

\* C22: an encode run never deadlocks on the output of its child: whatever
\* finite amount the child writes to its diagnostic stream and to its
\* standard output, the child is never blocked for good on a full pipe while
\* the runner waits for its exit.
C22_ChildNeverStuck == ~ChildStuck

\* C27: when the exit of a process is classified, the text examined is the
\* complete text the process wrote: every line written has been appended by
\* the reader before the lines are joined.
C27_ExaminedTextComplete ==
    proc.examined # -1 => proc.examined = proc.written

-----------------------------------------------------------------------------
(* Properties of one call of convert_video_to_mp4 *)

\* the detection ran and one of its two subprocesses did not succeed: the
\* listing failed, or the test encode exited non-zero, timed out or raised
DetectionWentWrong ==
    call.detected /\ (~call.query_ok \/ call.test \in TestOutcomes \ {"ok"})

\* C13: whatever goes wrong in the encoder listing or in the test encode,
\* the detection returns the 'no hardware' result and the call proceeds with
\* the software encoder.
C13_DetectionErrorMeansSoftware ==
    DetectionWentWrong =>
        /\ call.hw_accel = NoHardware
        /\ call.video_codec = "libx264"

\* C15: a job is reported as succeeded only if its output file exists and is
\* not empty; an encode that exits with code 0 and leaves no file, or a file
\* of zero bytes, is reported as a failure.
C15_SuccessNeedsNonEmptyOutput ==
    /\ call.report = "succeeded" => call.out_size > 0
    /\ (call.pc = "reported" /\ call.error = NoError /\ call.launches > 0
           /\ call.out_size \in {NoFile, 0})
          => call.report = "failed"

\* C16: every terminal failure reaches the caller and the terminal
\* notification with its kind: what convert_video_to_mp4 hands back, and what
\* the user is then told, names the kind of the error that was raised.
C16_FailureKindReachesCaller ==
    call.error # NoError =>
        /\ call.pc \in {"returned", "reported"} => call.result = call.error.kind
        /\ call.pc = "reported" => call.notified = call.error.kind

\* C17: a non-zero exit whose text holds a driver-failure substring is
\* retried on the software encoder whenever the attempt used a hardware
\* encoder (so such an exit is raised only from a software attempt), and an
\* attempt with the software encoder is never retried (the attempt that led
\* to the nested call used a hardware encoder).
C17_DriverFailureRetriedFromAnyHardware ==
    /\ (call.raised_at = "exit" /\ IsNvencError(call.stderr.text))
          => call.video_codec = "libx264"
    /\ (call.depth > 0 /\ call.pc = "probe") => call.video_codec \in HardwareCodecs

\* C18: an encoder is reported available only if the listing named it and a
\* test encode with that encoder ran and succeeded.
C18_AvailableOnlyIfTested ==
    call.hw_accel.available =>
        /\ call.hw_accel.encoder \in call.listed
        /\ call.hw_accel.encoder = "h264_nvenc" /\ call.test = "ok"

\* C19: the error raised on a non-zero exit that is not retried is the one
\* the substrings of the diagnostic text select (unsupported codec, corrupt
\* or missing input, permission denied, otherwise the generic error), and
\* its excerpt is the last MAX_LEN characters of the text at most.
C19_ExitClassifiedBySubstring ==
    call.raised_at = "exit" =>
        /\ call.error.kind = ClassifyFfmpegError(call.stderr).kind
        /\ call.error.excerpt = Trimmed(call.stderr.len)
        /\ call.error.excerpt <= MAX_LEN

\* the last probe of the call failed
ProbeFailed == call.probe \in ProbeOutcomes \ {"ok"}

====
